---- MODULE Spec2Model ----
(***************************************************************************)
(* Model of cfbot's submission scheduler and patch-application pipeline    *)
(* (cfbot_patch.py), the thread scraper it calls (cfbot_commitfest_rpc.py) *)
(* and the settings it reads (cfbot_config.py).                            *)
(*                                                                         *)
(* The specifications share the variables:                                 *)
(*   SpecRpc     get_latest_patches_from_thread_url over bounded pages     *)
(*   SpecChoose  choose_submission over bounded contents of the store      *)
(*   Spec        maybe_process_one, one action per invocation, with the    *)
(*               callers' updates of the store, the branch table, the      *)
(*               clock                                                     *)
(*   SpecProcess process_submission called directly, twice in a row with   *)
(*               the same inputs, on the working tree earlier attempts     *)
(*               left                                                      *)
(*   SpecBitrot  Spec's invocations on a store of built, up-to-date        *)
(*               submissions                                               *)
(*   SpecOverlap two invocations of maybe_process_one that overlap         *)
(***************************************************************************)
EXTENDS Integers, Sequences, FiniteSets, TLC

VARIABLES
  submission,   \* table submission: submission_id -> row
  testing,      \* number of rows of table branch with status = 'testing'
  now,          \* the database clock now(), in hours
  remote,       \* the monitored remote: submission_id -> pushed branch
  tick,         \* what the invocation of maybe_process_one that just ended did
  chosen,       \* SpecChoose: what choose_submission returned
  thread_page,  \* SpecRpc: the lines of the 'whole thread' page
  latest,       \* SpecRpc: what get_latest_patches_from_thread_url returned
  unfinished,   \* the submissions whose pushed branch has a build that has not finished
  tree,         \* SpecProcess, SpecOverlap: the working tree postgresql.cfbot
  runs,         \* SpecProcess: the direct calls of process_submission so far
  inv           \* SpecOverlap: where each invocation of maybe_process_one is

vars ==
  <<submission, testing, now, remote, tick, chosen, thread_page, latest,
    unfinished, tree, runs, inv>>

(***************************************************************************)
(* Bounds of the model.                                                    *)
(***************************************************************************)
MaxLines == 4      \* lines of a thread page that match one of the patterns
MaxTime == 3       \* SpecChoose, SpecBitrot: the latest time in the store
MaxClock == 1      \* Spec: the clock stops here
MaxTesting == 1    \* rows of table branch that can be 'testing' at once

(***************************************************************************)
(* Settings, cfbot_config.py.                                              *)
(***************************************************************************)
CONCURRENT_BUILDS == 1
CYCLE_TIME == 48
GIT_REMOTE_NAME == "github"

(***************************************************************************)
(* Python values.  None is the string "None" among strings and -1 among    *)
(* integers (identifiers and times are never negative).                    *)
(***************************************************************************)
None == "None"
NoId == -1
NULL == -1

\* Python truth of an integer-or-None: None and 0 are false.
Truthy(x) == x # NoId /\ x # 0

(***************************************************************************)
(* cfbot_commitfest_rpc.get_latest_patches_from_thread_url                 *)
(*                                                                         *)
(* A file name is the sequence of its dot-separated parts,                 *)
(* <<"0001-a", "tar", "gz">> for "0001-a.tar.gz"; the directory part of an *)
(* attachment's path is left out.  A line of the page is a message header, *)
(* a link to an attachment, or neither.                                    *)
(***************************************************************************)
JABIRU == <<"jabiru_2022-03-28_20-25-16", "tar", "gz">>

\* str.endswith with a suffix that starts at a dot
EndsWith(name, suffix) ==
  /\ Len(name) > Len(suffix)
  /\ SubSeq(name, Len(name) - Len(suffix) + 1, Len(name)) = suffix

\* the alternation of the attachment pattern
AttachmentSuffixes ==
  { <<"diff">>, <<"diff", "gz">>, <<"patch">>, <<"patch", "gz">>,
    <<"tar", "gz">>, <<"tgz">>, <<"tar", "bz2">> }

\* re.search of the attachment pattern on a line: the path it captures
AttachmentMatch(line) ==
  line.kind = "attachment" /\ \E sfx \in AttachmentSuffixes : EndsWith(line.name, sfx)

\* re.search of the message header pattern
HeaderMatch(line) == line.kind = "header"

SITE == "https://www.postgresql.org"
Url(name) == [site |-> SITE, path |-> name]

\* x.endswith(".tgz") or x.endswith(".tar.gz") or x.endswith(".tar.bz2")
IsTarball(url) ==
  \/ EndsWith(url.path, <<"tgz">>)
  \/ EndsWith(url.path, <<"tar", "gz">>)
  \/ EndsWith(url.path, <<"tar", "bz2">>)

\* the state of the scan before the first line
ScanStart ==
  [ selected_message_attachments |-> <<>>, selected_message_id |-> None,
    message_attachments |-> <<>>, message_id |-> None ]

\* the body of the for loop without "message_attachments = []" at a header
ScanLineNoReset(st, line) ==
  LET hit == AttachmentMatch(line) /\ line.name # JABIRU
      atts == IF hit THEN Append(st.message_attachments, Url(line.name))
                     ELSE st.message_attachments
      s1 == IF hit
              THEN [st EXCEPT !.message_attachments = atts,
                              !.selected_message_attachments = atts,
                              !.selected_message_id = st.message_id]
              ELSE st
  IN IF HeaderMatch(line) THEN [s1 EXCEPT !.message_id = line.id] ELSE s1

\* the body of the for loop, for one line
ScanLine(st, line) ==
  LET hit == AttachmentMatch(line) /\ line.name # JABIRU
      atts == IF hit THEN Append(st.message_attachments, Url(line.name))
                     ELSE st.message_attachments
      s1 == IF hit
              THEN [st EXCEPT !.message_attachments = atts,
                              !.selected_message_attachments = atts,
                              !.selected_message_id = st.message_id]
              ELSE st
  IN IF HeaderMatch(line)
       THEN [s1 EXCEPT !.message_id = line.id, !.message_attachments = <<>>]
       ELSE s1

RECURSIVE ScanPage(_, _, _)
ScanPage(page, i, st) ==
  IF i > Len(page) THEN st ELSE ScanPage(page, i + 1, ScanLine(st, page[i]))

\* the tarball rule, lines 56-60; has_list = FALSE is the list None
CombineRuleBroken(st) ==
  IF /\ \E i \in DOMAIN st.selected_message_attachments :
            IsTarball(st.selected_message_attachments[i])
     /\ Len(st.selected_message_attachments) > 0
    THEN [message_id |-> None, patch_urls |-> <<>>, has_list |-> FALSE]
    ELSE [message_id |-> st.selected_message_id,
          patch_urls |-> st.selected_message_attachments, has_list |-> TRUE]

CombineRule(st) ==
  IF /\ \E i \in DOMAIN st.selected_message_attachments :
            IsTarball(st.selected_message_attachments[i])
     /\ Len(st.selected_message_attachments) > 1
    THEN [message_id |-> None, patch_urls |-> <<>>, has_list |-> FALSE]
    ELSE [message_id |-> st.selected_message_id,
          patch_urls |-> st.selected_message_attachments, has_list |-> TRUE]

get_latest_patches_from_thread_url(page) ==
  CombineRule(ScanPage(page, 1, ScanStart))

(***************************************************************************)
(* The pages of SpecRpc: every page of at most MaxLines lines that starts  *)
(* with a message header, as the archive's pages do.                       *)
(***************************************************************************)
MessageIds == {"m1", "m2"}

Names ==
  { <<"0001-a", "patch">>, <<"0002-b", "patch">>, <<"0001-a", "diff">>,
    <<"0002-b", "diff", "gz">>, <<"0001-a", "tar", "gz">>, <<"0002-b", "tgz">>,
    <<"0001-a", "tar", "bz2">>, <<"0002-b", "txt">>, JABIRU }

Header(m) == [kind |-> "header", id |-> m, name |-> <<>>]
Attachment(n) == [kind |-> "attachment", id |-> None, name |-> n]
Text == [kind |-> "text", id |-> None, name |-> <<>>]

Lines == {Header(m) : m \in MessageIds} \cup {Attachment(n) : n \in Names} \cup {Text}

Pages ==
  {<<>>} \cup
  UNION { { p \in [1..n -> Lines] : HeaderMatch(p[1]) } : n \in 1..MaxLines }

NotYet == [message_id |-> "pending", patch_urls |-> <<>>, has_list |-> FALSE]

(***************************************************************************)
(* The submission store.  A row of table submission, keyed by              *)
(* submission_id (the commitfest_id of the key is left out: the queries    *)
(* only carry it along).  Times count half hours.                          *)
(***************************************************************************)
Ids == {1, 2}
HOUR == 2
Times == 0..MaxTime
CommitIds == {"c1"}
StatusValues == {"Ready for Committer", "Needs review", "Committed"}

\* status IN ('Ready for Committer', 'Needs review', 'Waiting on Author')
ActiveStatus(status) ==
  status \in {"Ready for Committer", "Needs review", "Waiting on Author"}

\* a IS DISTINCT FROM b: inequality that treats NULL as a value
IsDistinctFrom(a, b) == a # b

\* ORDER BY t: ascending, NULLs last
SortsBeforeNullsLast(a, b) == a # NULL /\ (b = NULL \/ a < b)

\* ORDER BY t NULLS FIRST
SortsBeforeNullsFirst(a, b) == b # NULL /\ (a = NULL \/ a < b)

\* fetchone() after LIMIT 1: any of the rows no other row sorts before;
\* (None, None) when the query gives no row
RowOrNone(rows) == IF rows = {} THEN {NoId} ELSE rows

\* need_to_limit_rate: SELECT COUNT(*) always gives a row, so "row and" is true
need_to_limit_rate_strict(count) == count > CONCURRENT_BUILDS

need_to_limit_rate(count) == count >= CONCURRENT_BUILDS

\* the WHERE clause of choose_submission_with_new_patch
HasNewPatch(row) ==
  /\ row.last_message_id # None
  /\ IsDistinctFrom(row.last_message_id, row.last_branch_message_id)
  /\ ActiveStatus(row.status)

\* choose_submission_with_new_patch, newest first instead of oldest first
choose_submission_with_new_patch_desc(store) ==
  LET rows == { s \in DOMAIN store : HasNewPatch(store[s]) }
      before(r, s) ==
        SortsBeforeNullsLast(store[s].last_email_time, store[r].last_email_time)
  IN RowOrNone({ s \in rows : \A r \in rows : ~ before(r, s) })

\* the submission_ids choose_submission_with_new_patch may return
choose_submission_with_new_patch(store) ==
  LET rows == { s \in DOMAIN store : HasNewPatch(store[s]) }
      before(r, s) ==
        SortsBeforeNullsLast(store[r].last_email_time, store[s].last_email_time)
  IN RowOrNone({ s \in rows : \A r \in rows : ~ before(r, s) })

\* the WHERE clause shared by the three queries of the bitrot path
BitrotCandidate(row) ==
  row.last_message_id # None /\ ActiveStatus(row.status)

\* last_branch_time > now() - INTERVAL '1 hour'; NULL is not greater
BuiltInLastHour(row, clock) ==
  row.last_branch_time # NULL /\ row.last_branch_time > clock - HOUR

\* choose_submission_without_new_patch with the last query's WHERE left out
choose_submission_without_new_patch_any(store, clock) ==
  LET number == Cardinality({ s \in DOMAIN store : BitrotCandidate(store[s]) })
      current_rate_per_hour ==
        Cardinality({ s \in DOMAIN store :
                        BitrotCandidate(store[s]) /\ BuiltInLastHour(store[s], clock) })
      before(r, s) ==
        SortsBeforeNullsFirst(store[r].last_branch_time, store[s].last_branch_time)
  IN IF current_rate_per_hour * CYCLE_TIME < number
       THEN RowOrNone({ s \in DOMAIN store : \A r \in DOMAIN store : ~ before(r, s) })
       ELSE {NoId}

\* choose_submission_without_new_patch with ORDER BY last_branch_time alone
choose_submission_without_new_patch_nulls_last(store, clock) ==
  LET number == Cardinality({ s \in DOMAIN store : BitrotCandidate(store[s]) })
      current_rate_per_hour ==
        Cardinality({ s \in DOMAIN store :
                        BitrotCandidate(store[s]) /\ BuiltInLastHour(store[s], clock) })
      rows == { s \in DOMAIN store : BitrotCandidate(store[s]) }
      before(r, s) ==
        SortsBeforeNullsLast(store[r].last_branch_time, store[s].last_branch_time)
  IN IF current_rate_per_hour * CYCLE_TIME < number
       THEN RowOrNone({ s \in rows : \A r \in rows : ~ before(r, s) })
       ELSE {NoId}

\* the submission_ids choose_submission_without_new_patch may return;
\* current_rate_per_hour < number / CYCLE_TIME, without the division
choose_submission_without_new_patch(store, clock) ==
  LET number == Cardinality({ s \in DOMAIN store : BitrotCandidate(store[s]) })
      current_rate_per_hour ==
        Cardinality({ s \in DOMAIN store :
                        BitrotCandidate(store[s]) /\ BuiltInLastHour(store[s], clock) })
      rows == { s \in DOMAIN store : BitrotCandidate(store[s]) }
      before(r, s) ==
        SortsBeforeNullsFirst(store[r].last_branch_time, store[s].last_branch_time)
  IN IF current_rate_per_hour * CYCLE_TIME < number
       THEN RowOrNone({ s \in rows : \A r \in rows : ~ before(r, s) })
       ELSE {NoId}

\* choose_submission with the two paths in the wrong order
choose_submission_bitrot_first(store, clock) ==
  { [sel |-> b, path |-> "bitrot"] :
      b \in { x \in choose_submission_without_new_patch(store, clock) : Truthy(x) } }
  \cup
  IF \E b \in choose_submission_without_new_patch(store, clock) : ~ Truthy(b)
    THEN { [sel |-> s, path |-> "new"] : s \in choose_submission_with_new_patch(store) }
    ELSE {}

\* what choose_submission may return, with the path that gave it
choose_submission(store, clock) ==
  { [sel |-> s, path |-> "new"] :
      s \in { x \in choose_submission_with_new_patch(store) : Truthy(x) } }
  \cup
  IF \E s \in choose_submission_with_new_patch(store) : ~ Truthy(s)
    THEN { [sel |-> b, path |-> "bitrot"] :
             b \in choose_submission_without_new_patch(store, clock) }
    ELSE {}

NoChoice == [sel |-> NoId, path |-> "pending"]

\* the contents of the store SpecChoose starts from
Rows(clock) ==
  [ status : StatusValues,
    last_message_id : {None} \cup MessageIds,
    last_branch_message_id : {None, "m1"},
    last_branch_commit_id : {None},
    last_email_time : {NULL} \cup 0..clock,
    last_branch_time : {NULL} \cup 0..clock ]

(***************************************************************************)
(* cfbot_patch.process_submission.  An attempt is the sequence of the      *)
(* external operations it runs, each with its exit code, and how it ends:  *)
(* it returns, or an exception leaves it (no handler in process_submission *)
(* or maybe_process_one catches any).                                      *)
(***************************************************************************)
Op(name, file, rc) == [op |-> name, file |-> file, rc |-> rc]

\* os.path.basename(urlparse(patch_url).path)
Basename(url) == url.path

LastPart(name) == name[Len(name)]

\* lexical order of two file names of one directory
StemOrder == <<"0001-a", "0002-b", "0003-c", "jabiru_2022-03-28_20-25-16">>
StemRank(stem) == CHOOSE i \in DOMAIN StemOrder : StemOrder[i] = stem
PartOrder == <<"bz2", "diff", "gz", "patch", "tar", "tgz", "txt">>
PartRank(part) == CHOOSE i \in DOMAIN PartOrder : PartOrder[i] = part

RECURSIVE PartsLess(_, _, _)
PartsLess(a, b, i) ==
  IF i > Len(a) THEN i <= Len(b)
  ELSE IF i > Len(b) THEN FALSE
  ELSE IF a[i] = b[i] THEN PartsLess(a, b, i + 1)
  ELSE IF i = 1 THEN StemRank(a[i]) < StemRank(b[i])
  ELSE PartRank(a[i]) < PartRank(b[i])

NameLess(a, b) == PartsLess(a, b, 1)

\* glob('*.diff') + glob('*.patch') left as it is, without patches.sort():
\* the .diff names come before the .patch names
RECURSIVE Unsorted(_)
Unsorted(names) ==
  IF names = {} THEN <<>>
  ELSE LET diffs == { n \in names : LastPart(n) = "diff" }
           pool == IF diffs # {} THEN diffs ELSE names
           first == CHOOSE n \in pool : \A m \in pool : ~ NameLess(m, n)
       IN <<first>> \o Unsorted(names \ {first})

\* list.sort() of a set of distinct names
RECURSIVE Sorted(_)
Sorted(names) ==
  IF names = {} THEN <<>>
  ELSE LET first == CHOOSE n \in names : \A m \in names : ~ NameLess(m, n)
       IN <<first>> \o Sorted(names \ {first})

\* the download loop, lines 198-205: one fetch per URL.  The loop has no
\* handler, so a fetch that fails (cfbot_util.slow_fetch_binary raising, as
\* an HTTP client does) ends the attempt with that exception
RECURSIVE Download(_, _, _)
Download(urls, i, fetch_fails) ==
  IF i > Len(urls) THEN <<>>
  ELSE IF fetch_fails THEN <<Op("fetch", Basename(urls[i]), 1)>>
  ELSE <<Op("fetch", Basename(urls[i]), 0)>> \o Download(urls, i + 1, fetch_fails)

\* which tool the decompression loop runs on a file name, lines 209-214
Decompressor(name) ==
  IF \/ EndsWith(name, <<"tgz">>) \/ EndsWith(name, <<"tar", "gz">>)
     \/ EndsWith(name, <<"tar", "bz2">>) THEN "tar"
  ELSE IF EndsWith(name, <<"zip">>) THEN "unzip"
  ELSE IF EndsWith(name, <<"gz">>) THEN "gunzip"
  ELSE "none"

\* the decompression loop: the tool runs in the process's directory, the file
\* is in patch_dir, so the tool exits non-zero and check_call raises
RECURSIVE Decompress(_, _)
Decompress(patches, i) ==
  IF i > Len(patches) THEN <<>>
  ELSE IF Decompressor(patches[i]) = "none" THEN Decompress(patches, i + 1)
  ELSE <<Op(Decompressor(patches[i]), patches[i], 1)>>

\* glob('*.diff') + glob('*.patch') over the files written to patch_dir
Glob(files) == { f \in files : LastPart(f) \in {"diff", "patch"} }

\* git am refuses to run on an index that holds changes: those of the raw
\* diffs that git apply --index has staged earlier in the loop
DirtyIndex(patches, i, raw, bad) ==
  \E j \in 1..(i - 1) : patches[j] \in raw \ bad

\* the apply loop without its break
RECURSIVE ApplyLoopNoBreak(_, _, _, _)
ApplyLoopNoBreak(patches, i, raw, bad) ==
  IF i > Len(patches) THEN <<>>
  ELSE LET israw == patches[i] \in raw
           rcode == IF \/ patches[i] \in bad
                       \/ ~ israw /\ DirtyIndex(patches, i, raw, bad)
                      THEN 1 ELSE 0
           step == Op(IF israw THEN "apply" ELSE "am", patches[i], rcode)
       IN <<step>> \o ApplyLoopNoBreak(patches, i + 1, raw, bad)

\* the apply loop, lines 229-265: raw is the set of files mailinfo finds no
\* message in, bad the set of files that do not apply
RECURSIVE ApplyLoop(_, _, _, _)
ApplyLoop(patches, i, raw, bad) ==
  IF i > Len(patches) THEN <<>>
  ELSE LET israw == patches[i] \in raw
           rcode == IF \/ patches[i] \in bad
                       \/ ~ israw /\ DirtyIndex(patches, i, raw, bad)
                      THEN 1 ELSE 0
           step == Op(IF israw THEN "apply" ELSE "am", patches[i], rcode)
       IN IF rcode # 0 THEN <<step>>
          ELSE <<step>> \o ApplyLoop(patches, i + 1, raw, bad)

\* rcode after the loop: 0, or the exit code of the last file tried
FinalRcode(applied) == IF applied = <<>> THEN 0 ELSE applied[Len(applied)].rc

Raised(ops) == ops # <<>> /\ ops[Len(ops)].rc # 0 /\ ops[Len(ops)].op \notin {"apply", "am"}

SelectOps(ops, names) == SelectSeq(ops, LAMBDA o : o.op \in names)

NoBranch == [base |-> None, commits |-> <<>>, staged |-> <<>>, message_id |-> None]

\* what the remote shows of a branch: its base and the message id of its banner
Published(branch) == [base |-> branch.base, message_id |-> branch.message_id]

\* git am makes one commit of every message a mailbox file holds: two of the
\* files in multi, one of any other
AmCommits(file, multi) ==
  IF file \in multi
    THEN <<[file |-> file, msg |-> 1], [file |-> file, msg |-> 2]>>
    ELSE <<[file |-> file, msg |-> 1]>>

\* the commits of the apply loop if the raw diffs were committed as well
RECURSIVE CommitsRawToo(_, _, _)
CommitsRawToo(applied, i, multi) ==
  IF i > Len(applied) THEN <<>>
  ELSE (IF applied[i].rc = 0 THEN AmCommits(applied[i].file, multi) ELSE <<>>)
       \o CommitsRawToo(applied, i + 1, multi)

\* the commits the apply loop makes, oldest first: those of git am; the
\* commit after git apply --index is commented out (lines 251-255)
RECURSIVE Commits(_, _, _)
Commits(applied, i, multi) ==
  IF i > Len(applied) THEN <<>>
  ELSE (IF applied[i].op = "am" /\ applied[i].rc = 0
          THEN AmCommits(applied[i].file, multi) ELSE <<>>)
       \o Commits(applied, i + 1, multi)

\* the branch an attempt leaves to push: the am commits, the changes apply
\* staged (they go into the provenance commit), the message id of the banner
Branch(commit_id, message_id, applied, multi) ==
  [ base |-> commit_id,
    commits |-> Commits(applied, 1, multi),
    staged |-> [i \in DOMAIN SelectOps(applied, {"apply"}) |-> SelectOps(applied, {"apply"})[i].file],
    message_id |-> message_id ]

(***************************************************************************)
(* The working tree postgresql.cfbot, which every attempt works in:        *)
(*   am        a git am is in progress (.git/rebase-apply exists)          *)
(*   staged    the index holds changes that HEAD does not have             *)
(*   blocking  these changes are to a path on which HEAD and master differ *)
(*   files     untracked files are left in a patch_dir                     *)
(***************************************************************************)
CleanTree == [am |-> FALSE, staged |-> FALSE, blocking |-> FALSE, files |-> FALSE]

WorkTrees ==
  { t \in [am : BOOLEAN, staged : BOOLEAN, blocking : BOOLEAN, files : BOOLEAN] :
      t.blocking => t.staged }

\* update_patchbase_tree, line 110:
\*   git am --abort        ends a git am in progress; its exit code is dropped
\*   git checkout .        makes the files as the index has them: the staged
\*                         changes stay
\*   git clean -fd         removes the untracked files
\*   git checkout master   fails if a staged change is to a path on which the
\*                         branch and master differ; else the staged changes
\*                         go along
\*   git pull              nothing to merge: upstream is at the same commit
\* check_call raises CalledProcessError when the command line exits non-zero
update_patchbase_tree(t) ==
  LET cleaned == [t EXCEPT !.am = FALSE, !.files = FALSE]
  IN IF t.blocking THEN [rc |-> 1, tree |-> cleaned]
                   ELSE [rc |-> 0, tree |-> cleaned]

\* git checkout -q -f -B branch, line 223: the branch starts at HEAD and the
\* index is made as HEAD; open(log_file, "a+") then leaves patch.out
checkout_branch(t) == [t EXCEPT !.staged = FALSE, !.blocking = FALSE, !.files = TRUE]

\* the working tree after the apply loop: a failed git am is left in
\* progress, the raw diffs that applied are staged; overlap says that a raw
\* diff of the set changes a path that a mailbox file of the set changes
apply_tree(t, applied, overlap) ==
  LET ok(name) == \E k \in DOMAIN applied : applied[k].op = name /\ applied[k].rc = 0
  IN [ am |-> applied # <<>> /\ applied[Len(applied)].op = "am"
                             /\ applied[Len(applied)].rc # 0,
       staged |-> t.staged \/ ok("apply"),
       blocking |-> t.blocking \/ (overlap /\ ok("am") /\ ok("apply")),
       files |-> TRUE ]

\* git commit, line 138: the index is committed
commit_tree(t) == [t EXCEPT !.staged = FALSE, !.blocking = FALSE]

\* make_branch with a git commit that lacks --allow-empty and is skipped
\* when nothing is staged
make_branch_if_staged(applied) ==
  IF \E k \in DOMAIN applied : applied[k].op = "apply"
    THEN <<Op("commit", <<>>, 0)>> ELSE <<>>

\* make_branch, lines 116-138: git commit --allow-empty -F with the banner
make_branch(applied) == <<Op("commit", <<>>, 0)>>

\* "if not thread_url" taken for "if thread_url is False"
NotThreadNever(thread_url) == FALSE

\* if not thread_url, line 170
NotThread(thread_url) == thread_url = None \/ thread_url = ""

\* The inputs of one attempt:
\*   thread_url  what get_thread_url_for_submission gives: None or a URL
\*   page        the lines of the thread page
\*   commit_id   HEAD of master after the pull
\*   raw, bad    see ApplyLoop
\*   multi       see AmCommits
\*   overlap     see apply_tree
\*   fetch_fails, push_fails  whether the download, the push fail
\*   tree        the working tree as the attempt finds it
process_submission(in) ==
  LET found == get_latest_patches_from_thread_url(in.page)
      head == <<Op("get_thread_url", <<>>, 0)>>
      reset == update_patchbase_tree(in.tree)
      setup == head \o <<Op("update_patchbase_tree", <<>>, 0),
                         Op("get_latest_patches", <<>>, 0)>>
      fetched == Download(found.patch_urls, 1, in.fetch_fails)
      patches == [i \in DOMAIN found.patch_urls |-> Basename(found.patch_urls[i])]
      unpacked == Decompress(patches, 1)
      sorted == Sorted(Glob({patches[i] : i \in DOMAIN patches}))
      applied == ApplyLoop(sorted, 1, in.raw, in.bad)
      rcode == FinalRcode(applied)
      checkout == <<Op("checkout", <<>>, 0)>>
      commit == make_branch(applied)
      push == <<Op("push", <<>>, IF in.push_fails THEN 1 ELSE 0)>>
      fetch_tree == [reset.tree EXCEPT !.files = found.patch_urls # <<>>]
      loop_tree == apply_tree(checkout_branch(fetch_tree), applied, in.overlap)
      base == [ thread_url |-> in.thread_url, message_id |-> found.message_id,
                commit_id |-> in.commit_id, pushed |-> NoBranch, patches |-> <<>> ]
      listed == [base EXCEPT !.patches = sorted]
      end(ops, outcome, result, error, t) ==
        base @@ [ ops |-> ops, outcome |-> outcome, result |-> result,
                  error |-> error, tree |-> t ]
  IN IF NotThread(in.thread_url)
       THEN [base EXCEPT !.message_id = None, !.commit_id = None] @@
            [ ops |-> head, outcome |-> "returned", result |-> "no_thread",
              error |-> None, tree |-> in.tree ]
     ELSE IF reset.rc # 0
       THEN [base EXCEPT !.message_id = None, !.commit_id = None] @@
            [ ops |-> head \o <<Op("update_patchbase_tree", <<>>, reset.rc)>>,
              outcome |-> "raised", result |-> "error",
              error |-> "CalledProcessError", tree |-> reset.tree ]
     ELSE IF ~ found.has_list
       THEN end(setup, "raised", "error", "TypeError", reset.tree)
     ELSE IF Raised(fetched)
       THEN end(setup \o fetched, "raised", "error", "FetchError", fetch_tree)
     ELSE IF Raised(unpacked)
       THEN end(setup \o fetched \o unpacked, "raised", "error",
                "CalledProcessError", fetch_tree)
     ELSE IF rcode # 0
       THEN listed @@
            [ ops |-> setup \o fetched \o checkout \o applied,
              outcome |-> "returned", result |-> "apply_failed", error |-> None,
              tree |-> loop_tree ]
     ELSE IF GIT_REMOTE_NAME = ""
       THEN listed @@
            [ ops |-> setup \o fetched \o checkout \o applied \o commit,
              outcome |-> "returned", result |-> "committed", error |-> None,
              tree |-> commit_tree(loop_tree) ]
     ELSE IF in.push_fails
       THEN listed @@
            [ ops |-> setup \o fetched \o checkout \o applied \o commit \o push,
              outcome |-> "raised", result |-> "error", error |-> "CalledProcessError",
              tree |-> commit_tree(loop_tree) ]
     ELSE [ listed EXCEPT
              !.pushed = Branch(in.commit_id, found.message_id, applied, in.multi) ] @@
          [ ops |-> setup \o fetched \o checkout \o applied \o commit \o push,
            outcome |-> "returned", result |-> "published", error |-> None,
            tree |-> commit_tree(loop_tree) ]

(***************************************************************************)
(* cfbot_patch.maybe_process_one, one action per invocation.               *)
(***************************************************************************)
NoTick ==
  [ ran |-> FALSE, count |-> 0, sel |-> NoId, path |-> "none", ops |-> <<>>,
    outcome |-> "returned", result |-> "none", error |-> None,
    thread_url |-> None, message_id |-> None, commit_id |-> None,
    pushed |-> NoBranch, patches |-> <<>>, tree |-> CleanTree,
    time |-> 0, pre |-> <<>>, pre_remote |-> <<>> ]

\* the thread pages an attempt may find
TickPages ==
  { <<>>,
    <<Header("m1"), Attachment(<<"0001-a", "patch">>)>>,
    <<Header("m2"), Attachment(<<"0002-b", "patch">>), Attachment(<<"0001-a", "diff">>)>>,
    <<Header("m2"), Attachment(<<"0001-a", "tar", "gz">>), Attachment(<<"0002-b", "patch">>)>>,
    <<Header("m1"), Attachment(<<"0001-a", "tar", "gz">>)>> }

THREAD == "https://www.postgresql.org/message-id/flat/t"

FilesOf(page) ==
  Glob({ page[i].name : i \in { j \in DOMAIN page : page[j].kind = "attachment" } })

\* the attempt that finds no thread
NoThreadInput ==
  [ thread_url |-> None, page |-> <<>>, commit_id |-> "c1", raw |-> {}, bad |-> {},
    multi |-> {}, overlap |-> FALSE, fetch_fails |-> FALSE, push_fails |-> FALSE ]

\* the inputs of the attempts of Spec: every file holds one message
AttemptInputs ==
  { NoThreadInput }
  \cup
  UNION { [ thread_url : {THREAD}, page : {pg}, commit_id : CommitIds,
            raw : SUBSET FilesOf(pg), bad : SUBSET FilesOf(pg),
            multi : {{}}, overlap : {FALSE},
            fetch_fails : {FALSE}, push_fails : BOOLEAN ] : pg \in TickPages }
  \cup
  [ thread_url : {THREAD}, page : TickPages, commit_id : CommitIds,
    raw : {{}}, bad : {{}}, multi : {{}}, overlap : {FALSE},
    fetch_fails : {TRUE}, push_fails : {FALSE} ]

\* the attempt with inputs in on the working tree t
OnTree(in, t) == in @@ [tree |-> t]

\* a working tree that update_patchbase_tree cannot take back to master
BlockedTree == [CleanTree EXCEPT !.staged = TRUE, !.blocking = TRUE]

\* Spec and SpecBitrot do not follow the working tree from one attempt to
\* the next (SpecProcess does): an attempt finds it clean or blocked
FoundTrees == {CleanTree, BlockedTree}

\* git push -f, line 279: the remote after an attempt for submission s
RemoteAfter(s, out) ==
  IF out.result = "published"
    THEN [remote EXCEPT ![s] = Published(out.pushed)] ELSE remote

\* the CI provider starts a build of every branch pushed
UnfinishedAfter(s, out) ==
  IF out.result = "published" THEN unfinished \cup {s} ELSE unfinished

\* the invocation that stops at the rate gate or finds nothing to do
Idle(c) ==
  [NoTick EXCEPT !.ran = TRUE, !.count = testing, !.sel = c.sel, !.path = c.path,
                 !.time = now, !.pre = submission, !.pre_remote = remote]

\* the invocation that runs process_submission on c.sel with the inputs in
\* on the working tree t
Attempt(c, in, t) ==
  [ ran |-> TRUE, count |-> testing, sel |-> c.sel, path |-> c.path,
    time |-> now, pre |-> submission, pre_remote |-> remote ]
  @@ process_submission(OnTree(in, t))

MaybeProcessOne ==
  /\ ~ tick.ran
  /\ IF need_to_limit_rate(testing)
       THEN /\ tick' = Idle([sel |-> NoId, path |-> "none"])
            /\ UNCHANGED <<remote, unfinished>>
       ELSE \E c \in choose_submission(submission, now) :
              IF Truthy(c.sel)
                THEN \E in \in AttemptInputs, t \in FoundTrees :
                       /\ tick' = Attempt(c, in, t)
                       /\ remote' = RemoteAfter(c.sel, tick')
                       /\ unfinished' = UnfinishedAfter(c.sel, tick')
                ELSE /\ tick' = Idle(c)
                     /\ UNCHANGED <<remote, unfinished>>
  \* process_submission has no UPDATE of table submission or table branch:
  \* update_submission (lines 149-162) is defined and called nowhere
  /\ UNCHANGED <<submission, testing, now, chosen, thread_page, latest, tree, runs, inv>>

(***************************************************************************)
(* The callers of this module: the run that invoked maybe_process_one      *)
(* ends, the scraper fills table submission, the CI pollers fill table     *)
(* branch, the clock advances.  Here runs do not overlap: the next step    *)
(* after an invocation is the end of its run.                              *)
(***************************************************************************)
RunEnds ==
  /\ tick.ran
  /\ tick' = NoTick
  /\ UNCHANGED <<submission, testing, now, remote, chosen, thread_page, latest, unfinished, tree, runs, inv>>

\* a new mail on the thread of s: the scraper records its time and its id
NewMail(s, m) ==
  /\ ~ tick.ran
  /\ m # submission[s].last_message_id
  /\ submission' = [submission EXCEPT ![s].last_message_id = m,
                                      ![s].last_email_time = now]
  /\ UNCHANGED <<testing, now, remote, tick, chosen, thread_page, latest, unfinished, tree, runs, inv>>

\* the commitfest app reports another status for s
SetStatus(s, st) ==
  /\ ~ tick.ran
  /\ st # submission[s].status
  /\ submission' = [submission EXCEPT ![s].status = st]
  /\ UNCHANGED <<testing, now, remote, tick, chosen, thread_page, latest, unfinished, tree, runs, inv>>

\* the CI poller finds the build of a pushed branch and records it in table
\* branch as 'testing'
BuildStarts ==
  /\ ~ tick.ran
  /\ testing < MaxTesting
  /\ testing < Cardinality(unfinished)
  /\ testing' = testing + 1
  /\ UNCHANGED <<submission, now, remote, tick, chosen, thread_page, latest, unfinished, tree, runs, inv>>

\* the build of the branch of s finishes and its row leaves 'testing'
BuildEnds(s) ==
  /\ ~ tick.ran
  /\ testing > 0
  /\ s \in unfinished
  /\ testing' = testing - 1
  /\ unfinished' = unfinished \ {s}
  /\ UNCHANGED <<submission, now, remote, tick, chosen, thread_page, latest, tree, runs, inv>>

\* half an hour passes
ClockTick ==
  /\ ~ tick.ran
  /\ now < MaxClock
  /\ now' = now + 1
  /\ UNCHANGED <<submission, testing, remote, tick, chosen, thread_page, latest, unfinished, tree, runs, inv>>

\* SpecOverlap: the invocations, each about to run need_to_limit_rate
Invocations == {"A", "B"}

NoInvocation ==
  [p \in Invocations |-> [pc |-> "gate", sel |-> NoId, path |-> "none", raced |-> FALSE]]

NeverBuilt ==
  [ status |-> "Needs review", last_message_id |-> None,
    last_branch_message_id |-> None, last_branch_commit_id |-> None,
    last_email_time |-> NULL, last_branch_time |-> NULL ]

MainStatusValues == {"Needs review", "Committed"}

Init ==
  /\ submission = [s \in Ids |-> NeverBuilt]
  /\ testing = 0
  /\ now = 0
  /\ remote = [s \in Ids |-> Published(NoBranch)]
  /\ tick = NoTick
  /\ chosen = NoChoice
  /\ thread_page = <<>>
  /\ latest = NotYet
  /\ unfinished = {}
  /\ tree = CleanTree
  /\ runs = <<>>
  /\ inv = NoInvocation

Next ==
  \/ MaybeProcessOne
  \/ RunEnds
  \/ \E s \in Ids, m \in MessageIds : NewMail(s, m)
  \/ \E s \in Ids, st \in MainStatusValues : SetStatus(s, st)
  \/ BuildStarts
  \/ \E s \in Ids : BuildEnds(s)
  \/ ClockTick

Spec == Init /\ [][Next]_vars

\* the caller keeps invoking maybe_process_one, and every run ends
FairSpec == Init /\ [][Next]_vars /\ WF_vars(MaybeProcessOne) /\ WF_vars(RunEnds)

(***************************************************************************)
(* SpecChoose: choose_submission on every content of the store.            *)
(***************************************************************************)
Choose ==
  /\ chosen = NoChoice
  /\ chosen' \in choose_submission(submission, now)
  /\ UNCHANGED <<submission, testing, now, remote, tick, thread_page, latest, unfinished, tree, runs, inv>>

InitChoose ==
  /\ now \in Times
  /\ submission \in [Ids -> Rows(now)]
  /\ testing = 0
  /\ remote = [s \in Ids |-> Published(NoBranch)]
  /\ tick = NoTick
  /\ chosen = NoChoice
  /\ thread_page = <<>>
  /\ latest = NotYet
  /\ unfinished = {}
  /\ tree = CleanTree
  /\ runs = <<>>
  /\ inv = NoInvocation

NextChoose == Choose

SpecChoose == InitChoose /\ [][NextChoose]_vars

(***************************************************************************)
(* SpecRpc: get_latest_patches_from_thread_url on every page.              *)
(***************************************************************************)
GetLatest ==
  /\ latest = NotYet
  /\ latest' = get_latest_patches_from_thread_url(thread_page)
  /\ UNCHANGED <<submission, testing, now, remote, tick, chosen, thread_page, unfinished, tree, runs, inv>>

InitRpc ==
  /\ thread_page \in Pages
  /\ latest = NotYet
  /\ submission = [s \in Ids |-> NeverBuilt]
  /\ testing = 0
  /\ now = 0
  /\ remote = [s \in Ids |-> Published(NoBranch)]
  /\ tick = NoTick
  /\ chosen = NoChoice
  /\ unfinished = {}
  /\ tree = CleanTree
  /\ runs = <<>>
  /\ inv = NoInvocation

NextRpc == GetLatest

SpecRpc == InitRpc /\ [][NextRpc]_vars

(***************************************************************************)
(* SpecProcess: process_submission called directly, as the module's main   *)
(* block does (lines 289-298): after any earlier attempts, twice in a row  *)
(* with the same inputs.                                                   *)
(***************************************************************************)
ProcessPages ==
  { <<Header("m1")>>,
    <<Header("m1"), Attachment(<<"0002-b", "diff">>), Attachment(<<"0001-a", "patch">>)>>,
    <<Header("m1"), Attachment(<<"0001-a", "diff">>), Attachment(<<"0002-b", "patch">>)>>,
    <<Header("m2"), Attachment(<<"0001-a", "patch">>), Attachment(<<"0002-b", "diff">>),
      Attachment(<<"0003-c", "patch">>)>>,
    <<Header("m2"), Attachment(<<"0001-a", "tar", "gz">>), Attachment(<<"0002-b", "patch">>)>>,
    <<Header("m1"), Attachment(<<"0001-a", "tar", "gz">>)>> }

AtMostOne(S) == {{}} \cup { {x} : x \in S }

\* the loop stops at the first file that fails, so one bad file is enough;
\* a file with two messages is not a raw diff
ProcessInputs ==
  { NoThreadInput }
  \cup
  UNION { { in \in [ thread_url : {THREAD}, page : {pg}, commit_id : CommitIds,
                     raw : SUBSET FilesOf(pg), bad : AtMostOne(FilesOf(pg)),
                     multi : AtMostOne(FilesOf(pg)), overlap : BOOLEAN,
                     fetch_fails : {FALSE}, push_fails : BOOLEAN ] :
              in.multi \cap in.raw = {} } : pg \in ProcessPages }
  \cup
  [ thread_url : {THREAD}, page : ProcessPages, commit_id : CommitIds,
    raw : {{}}, bad : {{}}, multi : {{}}, overlap : {FALSE},
    fetch_fails : {TRUE}, push_fails : {FALSE} ]

\* the submission the direct calls are for
DIRECT == CHOOSE s \in Ids : \A o \in Ids : s <= o

\* an attempt made before the two runs
EarlierAttempt ==
  /\ runs = <<>>
  /\ \E in \in ProcessInputs :
       LET out == process_submission(OnTree(in, tree))
       IN /\ tree' = out.tree
          /\ remote' = RemoteAfter(DIRECT, out)
          /\ unfinished' = UnfinishedAfter(DIRECT, out)
  /\ UNCHANGED <<submission, testing, now, tick, chosen, thread_page, latest, runs, inv>>

\* the first of the two runs
ProcessSubmission ==
  /\ runs = <<>>
  /\ \E in \in ProcessInputs :
       LET out == process_submission(OnTree(in, tree))
       IN /\ runs' = <<[in |-> in, before |-> tree, out |-> out]>>
          /\ tree' = out.tree
          /\ remote' = RemoteAfter(DIRECT, out)
          /\ unfinished' = UnfinishedAfter(DIRECT, out)
  /\ UNCHANGED <<submission, testing, now, tick, chosen, thread_page, latest, inv>>

\* the second run: the same thread, page, baseline and files
ProcessAgain ==
  /\ Len(runs) = 1
  /\ LET in == runs[1].in
         out == process_submission(OnTree(in, tree))
     IN /\ runs' = Append(runs, [in |-> in, before |-> tree, out |-> out])
        /\ tree' = out.tree
        /\ remote' = RemoteAfter(DIRECT, out)
        /\ unfinished' = UnfinishedAfter(DIRECT, out)
  /\ UNCHANGED <<submission, testing, now, tick, chosen, thread_page, latest, inv>>

InitProcess == Init

NextProcess == EarlierAttempt \/ ProcessSubmission \/ ProcessAgain

SpecProcess == InitProcess /\ [][NextProcess]_vars

(***************************************************************************)
(* SpecBitrot: the invocations of Spec on a store of submissions that were *)
(* built, more than an hour ago, from their latest message.  No mail       *)
(* arrives and no status changes.                                          *)
(***************************************************************************)
Built(t) ==
  [ status |-> "Needs review", last_message_id |-> "m1",
    last_branch_message_id |-> "m1", last_branch_commit_id |-> "c1",
    last_email_time |-> 0, last_branch_time |-> t ]

InitBitrot ==
  /\ now = MaxTime
  /\ submission \in [Ids -> { Built(t) : t \in 0..(MaxTime - HOUR) }]
  /\ testing = 0
  /\ remote = [s \in Ids |-> [base |-> "c1", message_id |-> "m1"]]
  /\ tick = NoTick
  /\ chosen = NoChoice
  /\ thread_page = <<>>
  /\ latest = NotYet
  /\ unfinished = {}
  /\ tree = CleanTree
  /\ runs = <<>>
  /\ inv = NoInvocation

NextBitrot ==
  \/ MaybeProcessOne
  \/ RunEnds
  \/ BuildStarts
  \/ \E s \in Ids : BuildEnds(s)

\* the caller keeps invoking maybe_process_one, and every run ends
SpecBitrot ==
  InitBitrot /\ [][NextBitrot]_vars /\ WF_vars(MaybeProcessOne) /\ WF_vars(RunEnds)

(***************************************************************************)
(* SpecOverlap: two invocations of maybe_process_one run at the same time  *)
(* on one store and one working tree.  An invocation is at                 *)
(*   gate     before need_to_limit_rate, line 283                          *)
(*   choose   before choose_submission, line 284                           *)
(*   process  before process_submission, line 286                          *)
(*   working  inside process_submission                                    *)
(*   done     after maybe_process_one                                      *)
(* raced says that the other invocation was inside process_submission at   *)
(* the same time; the working tree such an attempt finds is any of         *)
(* WorkTrees.                                                              *)
(***************************************************************************)
NeedToLimitRate(p) ==
  /\ inv[p].pc = "gate"
  /\ inv' = [inv EXCEPT ![p].pc = IF need_to_limit_rate(testing) THEN "done" ELSE "choose"]
  /\ UNCHANGED <<submission, testing, now, remote, tick, chosen, thread_page, latest,
                 unfinished, tree, runs>>

ChooseSubmission(p) ==
  /\ inv[p].pc = "choose"
  /\ \E c \in choose_submission(submission, now) :
       inv' = [inv EXCEPT ![p].sel = c.sel, ![p].path = c.path,
                          ![p].pc = IF Truthy(c.sel) THEN "process" ELSE "done"]
  /\ UNCHANGED <<submission, testing, now, remote, tick, chosen, thread_page, latest,
                 unfinished, tree, runs>>

ProcessBegins(p) ==
  /\ inv[p].pc = "process"
  /\ inv' = [q \in Invocations |->
               IF q = p
                 THEN [inv[q] EXCEPT !.pc = "working",
                                     !.raced = \E o \in Invocations \ {p} :
                                                  inv[o].pc = "working"]
               ELSE IF inv[q].pc = "working" THEN [inv[q] EXCEPT !.raced = TRUE]
               ELSE inv[q]]
  /\ UNCHANGED <<submission, testing, now, remote, tick, chosen, thread_page, latest,
                 unfinished, tree, runs>>

ProcessEnds(p) ==
  /\ inv[p].pc = "working"
  /\ \E in \in AttemptInputs, t \in (IF inv[p].raced THEN WorkTrees ELSE {tree}) :
       LET out == process_submission(OnTree(in, t))
       IN /\ tree' = out.tree
          /\ remote' = RemoteAfter(inv[p].sel, out)
          /\ unfinished' = UnfinishedAfter(inv[p].sel, out)
  /\ inv' = [inv EXCEPT ![p].pc = "done"]
  /\ UNCHANGED <<submission, testing, now, tick, chosen, thread_page, latest, runs>>

\* both submissions have a new patch, posted at the same time
Posted ==
  [NeverBuilt EXCEPT !.last_message_id = "m1", !.last_email_time = 0]

InitOverlap ==
  /\ submission = [s \in Ids |-> Posted]
  /\ testing = 0
  /\ now = 0
  /\ remote = [s \in Ids |-> Published(NoBranch)]
  /\ tick = NoTick
  /\ chosen = NoChoice
  /\ thread_page = <<>>
  /\ latest = NotYet
  /\ unfinished = {}
  /\ tree = CleanTree
  /\ runs = <<>>
  /\ inv = NoInvocation

NextOverlap ==
  \/ \E p \in Invocations : NeedToLimitRate(p)
  \/ \E p \in Invocations : ChooseSubmission(p)
  \/ \E p \in Invocations : ProcessBegins(p)
  \/ \E p \in Invocations : ProcessEnds(p)
  \/ BuildStarts
  \/ \E s \in Ids : BuildEnds(s)

SpecOverlap == InitOverlap /\ [][NextOverlap]_vars

(***************************************************************************)
(* Properties.                                                             *)
(***************************************************************************)
ACTIVE == {"Ready for Committer", "Needs review", "Waiting on Author"}

\* stale: last_message_id is non-null and differs from last_branch_message_id
Stale(row) ==
  row.last_message_id # None /\ row.last_message_id # row.last_branch_message_id

StrictlyOlder(a, b) == a # NULL /\ b # NULL /\ a < b

\* C1 (Spec): an invocation that starts with at least CONCURRENT_BUILDS
\* branch rows in status 'testing' selects no submission and runs no
\* operation: no resolve, reset, fetch, checkout, apply, commit or push; the
\* remote and the store are as before.
C1_RateGate ==
  (tick.ran /\ tick.count >= CONCURRENT_BUILDS) =>
    /\ tick.sel = NoId
    /\ tick.ops = <<>>
    /\ remote = tick.pre_remote
    /\ submission = tick.pre

\* a gated invocation with a stale, active submission waiting
C1_Witness ==
  /\ tick.ran
  /\ tick.count >= CONCURRENT_BUILDS
  /\ \E s \in Ids : Stale(submission[s]) /\ submission[s].status \in ACTIVE

\* C2 (SpecChoose): a submission returned through the new-patch path is
\* stale and active, and no other stale, active submission has a strictly
\* older last_email_time.
C2_OldestFirst ==
  chosen.path = "new" =>
    /\ chosen.sel \in Ids
    /\ Stale(submission[chosen.sel])
    /\ submission[chosen.sel].status \in ACTIVE
    /\ \A o \in Ids \ {chosen.sel} :
         (Stale(submission[o]) /\ submission[o].status \in ACTIVE) =>
           ~ StrictlyOlder(submission[o].last_email_time,
                           submission[chosen.sel].last_email_time)

\* the new-patch path chose the older of two stale, active submissions
C2_Witness ==
  /\ chosen.path = "new"
  /\ \E o \in Ids \ {chosen.sel} :
       /\ Stale(submission[o]) /\ submission[o].status \in ACTIVE
       /\ StrictlyOlder(submission[chosen.sel].last_email_time,
                        submission[o].last_email_time)

C4_Eligible ==
  chosen.sel # NoId =>
    /\ chosen.sel \in Ids
    /\ submission[chosen.sel].status \in ACTIVE
    /\ submission[chosen.sel].last_message_id # None

\* the bitrot path passed over a row that sorts first but is not eligible
C4_Witness ==
  /\ chosen.path = "bitrot"
  /\ chosen.sel # NoId
  /\ \E r \in Ids \ {chosen.sel} :
       /\ submission[r].last_branch_time = NULL
       /\ submission[chosen.sel].last_branch_time # NULL
       /\ (submission[r].status \notin ACTIVE \/ submission[r].last_message_id = None)

C6_FailureRecorded ==
  (tick.ran /\ tick.result = "apply_failed") =>
    /\ submission[tick.sel].last_branch_time = tick.time
    /\ submission[tick.sel].last_message_id = tick.pre[tick.sel].last_message_id
    /\ submission[tick.sel].last_branch_message_id =
         tick.pre[tick.sel].last_branch_message_id
    /\ submission[tick.sel].last_branch_commit_id =
         tick.pre[tick.sel].last_branch_commit_id

\* C7 (Spec): once a file exits non-zero, the attempt applies no further
\* file, makes no provenance commit and pushes nothing; the remote is as
\* before the attempt.
C7_NoPartialPublished ==
  \A k \in DOMAIN tick.ops :
    (tick.ops[k].op \in {"apply", "am"} /\ tick.ops[k].rc # 0) =>
      /\ \A j \in DOMAIN tick.ops :
           j > k => tick.ops[j].op \notin {"apply", "am", "commit", "push"}
      /\ tick.pushed = NoBranch
      /\ remote = tick.pre_remote

\* the first of two files failed, for a submission whose branch is published
C7_Witness ==
  /\ tick.ran
  /\ Len(tick.patches) = 2
  /\ \E k \in DOMAIN tick.ops :
       /\ tick.ops[k].op \in {"apply", "am"}
       /\ tick.ops[k].rc # 0
       /\ tick.ops[k].file = tick.patches[1]
  /\ tick.pre_remote[tick.sel] # Published(NoBranch)

\* C8 as stated (FairSpec): if invocations pass the rate gate again and
\* again, every submission that is stale and active is eventually selected
\* and processed, unless it stops being stale or active first.
Waiting(s) == Stale(submission[s]) /\ submission[s].status \in ACTIVE

Processed(s) == tick.ran /\ tick.sel = s /\ tick.ops # <<>>

GateOpen == tick.ran /\ tick.count < CONCURRENT_BUILDS

C8_NoStarvation ==
  \A s \in Ids :
    []<>GateOpen => (Waiting(s) ~> (Processed(s) \/ ~ Waiting(s)))

\* C9 as stated (Spec): no invocation ends with an exception leaving
\* maybe_process_one.
C9_NoErrorEscapes == tick.ran => tick.outcome = "returned"

\* C10 (SpecRpc): with the selected message the last one that has an
\* attachment the scan takes, the result is none exactly when that message
\* has an archive (.tgz, .tar.gz, .tar.bz2) and at least two attachments;
\* otherwise it is the message's id with all its attachments in page order.
Taken(line) ==
  /\ line.kind = "attachment"
  /\ line.name # JABIRU
  /\ Len(line.name) > 1
  /\ Tail(line.name) \in AttachmentSuffixes

Archive(line) == Tail(line.name) \in { <<"tgz">>, <<"tar", "gz">>, <<"tar", "bz2">> }

\* the header line of the message that line i belongs to
MessageOf(page, i) ==
  CHOOSE h \in 1..i : page[h].kind = "header" /\
                      \A j \in (h + 1)..i : page[j].kind # "header"

\* the lines of the attachments of the selected message
SelectedLines(page) ==
  LET taken == { i \in DOMAIN page : Taken(page[i]) }
      last == CHOOSE i \in taken : \A j \in taken : j <= i
  IN { i \in taken : MessageOf(page, i) = MessageOf(page, last) }

C10_CombinationRule ==
  (latest # NotYet /\ \E i \in DOMAIN thread_page : Taken(thread_page[i])) =>
    LET lines == SelectedLines(thread_page)
        first == CHOOSE i \in lines : \A j \in lines : i <= j
        mixed == /\ \E i \in lines : Archive(thread_page[i])
                 /\ Cardinality(lines) >= 2
    IN /\ ~ latest.has_list <=> mixed
       /\ ~ latest.has_list => latest.message_id = None
       /\ latest.has_list =>
            /\ latest.message_id = thread_page[MessageOf(thread_page, first)].id
            /\ Len(latest.patch_urls) = Cardinality(lines)
            /\ \A i \in lines :
                 latest.patch_urls[Cardinality({ j \in lines : j <= i })].path
                   = thread_page[i].name

\* a message with an archive and a patch was rejected
C10_Witness ==
  /\ latest # NotYet
  /\ ~ latest.has_list
  /\ \E i, j \in DOMAIN thread_page :
       /\ Taken(thread_page[i]) /\ Archive(thread_page[i])
       /\ Taken(thread_page[j]) /\ ~ Archive(thread_page[j])

\* C11 (Spec): when get_thread_url_for_submission gives None for the selected
\* submission, the attempt runs nothing after the lookup (no reset of the
\* working tree, no fetch, no checkout, no commit, no push) and returns; the
\* remote is as before, and so are last_message_id and
\* last_branch_message_id of the submission.
C11_NoThreadUnchanged ==
  (tick.ran /\ Truthy(tick.sel) /\ tick.thread_url = None) =>
    /\ tick.ops = <<Op("get_thread_url", <<>>, 0)>>
    /\ tick.outcome = "returned"
    /\ tick.pushed = NoBranch
    /\ remote = tick.pre_remote
    /\ submission[tick.sel].last_message_id = tick.pre[tick.sel].last_message_id
    /\ submission[tick.sel].last_branch_message_id =
         tick.pre[tick.sel].last_branch_message_id

\* a stale submission with a published branch was selected and has no thread
C11_Witness ==
  /\ tick.ran
  /\ Truthy(tick.sel)
  /\ tick.thread_url = None
  /\ Stale(tick.pre[tick.sel])
  /\ tick.pre_remote[tick.sel] # Published(NoBranch)

\* the operations of an attempt that handle a patch file
FileOps(ops) == SelectOps(ops, {"apply", "am"})

\* the positions of the operations named name
Positions(ops, name) == { j \in DOMAIN ops : ops[j].op = name }

FilesIn(seq) == [i \in DOMAIN seq |-> seq[i].file]

C14_LexicalOrder ==
  \A k \in DOMAIN runs :
    LET done == FileOps(runs[k].out.ops)
        files == FilesIn(done)
    IN /\ \A i, j \in DOMAIN files : i < j => NameLess(files[i], files[j])
       /\ \A i \in DOMAIN files : files[i] \in FilesOf(runs[k].in.page)
       /\ Positions(runs[k].out.ops, "checkout") # {} =>
            \A f \in FilesOf(runs[k].in.page) :
              \/ \E i \in DOMAIN files : files[i] = f
              \/ /\ done # <<>>
                 /\ done[Len(done)].rc # 0
                 /\ NameLess(files[Len(files)], f)

\* the page lists a .diff before a .patch whose name sorts first; both were
\* applied, the .patch first
C14_Witness ==
  \E k \in DOMAIN runs :
    LET page == runs[k].in.page
        files == FilesIn(FileOps(runs[k].out.ops))
    IN /\ Len(files) = 2
       /\ LastPart(files[1]) = "patch"
       /\ LastPart(files[2]) = "diff"
       /\ \E i, j \in DOMAIN page :
            /\ i < j
            /\ page[i].kind = "attachment" /\ page[i].name = files[2]
            /\ page[j].kind = "attachment" /\ page[j].name = files[1]
       /\ runs[k].out.result = "published"

\* C15 as stated (SpecProcess): the second of two runs in a row with the same
\* thread, page, baseline and files applies the same files with the same
\* results as the first and leaves the same branch, whatever the working
\* tree was before the first run.
C15_Idempotent ==
  Len(runs) = 2 =>
    /\ FileOps(runs[1].out.ops) = FileOps(runs[2].out.ops)
    /\ runs[1].out.pushed = runs[2].out.pushed
    /\ runs[1].out.result = runs[2].out.result

\* the rows the bitrot path counts
Eligible(row) == row.status \in ACTIVE /\ row.last_message_id # None

\* C16 (SpecChoose): with no stale submission, choose_submission goes to the
\* bitrot path, which returns a submission exactly when the number of
\* eligible submissions built in the last hour, times CYCLE_TIME, is less
\* than the number of eligible submissions; the submission returned is
\* eligible, has a null last_branch_time if an eligible one has, and
\* otherwise none is strictly older.
C16_BitrotRule ==
  (chosen # NoChoice /\ \A s \in Ids : ~ Stale(submission[s])) =>
    LET eligible == { s \in Ids : Eligible(submission[s]) }
        recent == { s \in eligible :
                      /\ submission[s].last_branch_time # NULL
                      /\ submission[s].last_branch_time > now - HOUR }
    IN /\ chosen.path = "bitrot"
       /\ chosen.sel # NoId <=>
            Cardinality(recent) * CYCLE_TIME < Cardinality(eligible)
       /\ chosen.sel # NoId =>
            /\ chosen.sel \in eligible
            /\ (\E s \in eligible : submission[s].last_branch_time = NULL) =>
                 submission[chosen.sel].last_branch_time = NULL
            /\ \A s \in eligible :
                 ~ StrictlyOlder(submission[s].last_branch_time,
                                 submission[chosen.sel].last_branch_time)

\* a never-built submission was returned before one built long ago
C16_Witness ==
  /\ chosen.path = "bitrot"
  /\ chosen.sel # NoId
  /\ \A s \in Ids : ~ Stale(submission[s])
  /\ submission[chosen.sel].last_branch_time = NULL
  /\ \E o \in Ids \ {chosen.sel} :
       Eligible(submission[o]) /\ submission[o].last_branch_time # NULL

BitrotSelected(s) == tick.ran /\ tick.path = "bitrot" /\ tick.sel = s

C18_BitrotProgress ==
  \A s \in Ids :
    (Eligible(submission[s]) /\ []<>GateOpen) => <>BitrotSelected(s)

\* C19 as stated (SpecOverlap): two invocations that overlap never select the
\* same submission for processing and are never inside process_submission,
\* on the one working tree, at the same time.
C19_NoDoubleSelection ==
  \A p, q \in Invocations :
    p # q =>
      /\ ~ (Truthy(inv[p].sel) /\ inv[p].sel = inv[q].sel)
      /\ ~ (inv[p].pc = "working" /\ inv[q].pc = "working")

Nth(lines, k) == CHOOSE i \in lines : Cardinality({ j \in lines : j <= i }) = k

\* the names of the attachments on the lines, in page order
NamesOn(page, lines) == [k \in 1..Cardinality(lines) |-> page[Nth(lines, k)].name]

\* the paths of a list of URLs
Paths(urls) == [k \in DOMAIN urls |-> urls[k].path]

\* C21 as stated (SpecRpc): for every page with an attachment the scan
\* takes, the result is the id of the last message that has such an
\* attachment, with exactly the attachments of that message in page order.
C21_NewestMessage ==
  (latest # NotYet /\ \E i \in DOMAIN thread_page : Taken(thread_page[i])) =>
    LET lines == SelectedLines(thread_page)
    IN /\ latest.has_list
       /\ latest.message_id = thread_page[MessageOf(thread_page, Nth(lines, 1))].id
       /\ Paths(latest.patch_urls) = NamesOn(thread_page, lines)

\* C21 amended (SpecRpc): the same, unless the last message that has an
\* attachment the scan takes has an archive (.tgz, .tar.gz, .tar.bz2) among
\* two or more such attachments: then the result is no id and no list.
C21_NewestUnlessMixed ==
  (latest # NotYet /\ \E i \in DOMAIN thread_page : Taken(thread_page[i])) =>
    LET lines == SelectedLines(thread_page)
    IN IF Cardinality(lines) > 1 /\ \E i \in lines : Archive(thread_page[i])
         THEN ~ latest.has_list /\ latest.message_id = None
         ELSE /\ latest.has_list
              /\ latest.message_id =
                   thread_page[MessageOf(thread_page, Nth(lines, 1))].id
              /\ Paths(latest.patch_urls) = NamesOn(thread_page, lines)

\* two messages have an attachment, and the result is the second with its
\* one attachment
C21_Witness ==
  /\ latest # NotYet
  /\ latest.has_list
  /\ Len(latest.patch_urls) = 1
  /\ \E i, j \in DOMAIN thread_page :
       /\ i < j
       /\ Taken(thread_page[i]) /\ Taken(thread_page[j])
       /\ MessageOf(thread_page, i) # MessageOf(thread_page, j)
       /\ latest.message_id = thread_page[MessageOf(thread_page, j)].id
       /\ latest.patch_urls[1].path = thread_page[j].name

\* the *.diff and *.patch files that an archive attachment holds: here one
\* patch, named as the archive
Members(name) == IF Decompressor(name) = "none" THEN {} ELSE { <<name[1], "patch">> }

\* C22 as stated (SpecProcess): when the sole attachment of the resolved
\* message is an archive and its download succeeded, every *.diff and
\* *.patch file the archive holds is in the sorted list of files of the
\* attempt and is handed to the apply loop; a file the apply loop handles
\* that is no member of an archive is a file the attempt downloaded.
C22_ExtractionFeeds ==
  \A k \in DOMAIN runs :
    LET ops == runs[k].out.ops
        found == get_latest_patches_from_thread_url(runs[k].in.page)
        fetched(f) == \E j \in DOMAIN ops :
                        ops[j].op = "fetch" /\ ops[j].file = f /\ ops[j].rc = 0
        sole == Basename(found.patch_urls[1])
    IN /\ ( /\ ~ NotThread(runs[k].in.thread_url)
            /\ found.has_list
            /\ Len(found.patch_urls) = 1
            /\ Members(sole) # {}
            /\ fetched(sole) ) =>
            \A f \in Members(sole) :
              /\ \E i \in DOMAIN runs[k].out.patches : runs[k].out.patches[i] = f
              /\ \E j \in DOMAIN ops : ops[j].op \in {"apply", "am"} /\ ops[j].file = f
       /\ \A j \in DOMAIN ops :
            ops[j].op \in {"apply", "am"} =>
              \/ fetched(ops[j].file)
              \/ \E a \in FilesIn(SelectOps(ops, {"fetch"})) : ops[j].file \in Members(a)

====
